---- MODULE Spec2Model ----
(***************************************************************************)
(* Submission processing / scoring state machine of the hackathon scoring  *)
(* tool backend: the process, score and review routes, the background      *)
(* runs, the scoring batch and the save hook of the TestResult model.      *)
(*                                                                         *)
(* Points are integers in hundredths of a point (5 points = 500), so the   *)
(* 0.01 tolerance of the breakdown check is 1 and Math.round(x*100)/100 is *)
(* rounding to the nearest integer.  A text is a sequence of line tokens:  *)
(* the empty string is << >>, a blank line is " ", and joining two texts   *)
(* with a newline is concatenation.  An optional number is a sequence of   *)
(* length 0 or 1; an optional string is "" when absent; an optional        *)
(* boolean is "none", "true" or "false".                                   *)
(***************************************************************************)
EXTENDS Integers, Sequences, FiniteSets, TLC

VARIABLES schema, db, reqs, clock, tests

vars == <<schema, db, reqs, clock, tests>>

\* ------------------------------------------------------------------ bounds
MaxQuestions == 2

MaxImages == 2

MaxClock == 1

MaxTests == 3

MaxBatchQuestions == 3

MaxWindow == 3

MaxCriteria == 4

\* --------------------------------------------------------- program constants
Tolerance == 1

ScoreConcurrency == 2

\* ------------------------------------------------------------------ helpers
Max(a, b) == IF a >= b THEN a ELSE b

Min(a, b) == IF a <= b THEN a ELSE b

Abs(a) == IF a >= 0 THEN a ELSE 0 - a

\* Math.round(num / den) for num >= 0, den > 0 (halves round up)
RoundDiv(num, den) == (2 * num + den) \div (2 * den)

RECURSIVE SumPoints(_)
SumPoints(s) == IF Len(s) = 0 THEN 0 ELSE Head(s).points + SumPoints(Tail(s))

RECURSIVE SumMaxPoints(_)
SumMaxPoints(s) == IF Len(s) = 0 THEN 0 ELSE Head(s).maxPoints + SumMaxPoints(Tail(s))

\* ------------------------------------------------------------------ schema
Question(n) ==
  [questionNumber |-> n, maxPoints |-> 500 * n, hasCriteria |-> n # 2]

\* question lists are not kept in question-number order by the schema routes
Descending(n) == [i \in 1..n |-> Question(n + 1 - i)]

SchemaLists == {Descending(n) : n \in 1..MaxQuestions}

\* the uploads the model starts from: every schema with a one-page paper, and
\* the one-question schema with papers of every length
Uploads ==
  {<<questions, 1>> : questions \in SchemaLists} \cup {<<Descending(1), n>> : n \in 1..MaxImages}

\* ---------------------------------------------------- ScoringSchema model
\* the schema document the submission references; exists is FALSE once it was
\* deleted
NoSchema == [exists |-> FALSE, questions |-> << >>, totalPoints |-> 0]

\* new ScoringSchema({..., questions, totalPoints: 0})
NewSchema(questions) == [exists |-> TRUE, questions |-> questions, totalPoints |-> 0]

\* questions has at least one entry, maxPoints and totalPoints respect min: 0
SchemaValidationOk(doc) ==
  /\ Len(doc.questions) > 0
  /\ \A i \in 1..Len(doc.questions) : doc.questions[i].maxPoints >= 0
  /\ doc.totalPoints >= 0

SchemaSavedStale(doc) == doc

\* ScoringSchemaSchema.pre('save')
SchemaSaved(doc) == [doc EXCEPT !.totalPoints = SumMaxPoints(doc.questions)]

ErrorFeedback == "Error during scoring. Please review manually."

\* ------------------------------------------------------- scoring.service.ts
ClampPointsNoUpperBound(p, maxPoints) == Max(0, p)

ClampPoints(p, maxPoints) == Max(0, Min(p, maxPoints))

OptValue(opt) == IF Len(opt) = 0 THEN 0 ELSE opt[1]

OrDefault(str, default) == IF str = "" THEN default ELSE str

NonNegativeCriteria(bd) ==
  [i \in 1..Len(bd) |-> [points |-> Max(0, bd[i].points), maxPoints |-> Max(0, bd[i].maxPoints)]]

ScaleCriteria(bd, points, breakdownSum) ==
  [i \in 1..Len(bd) |-> [bd[i] EXCEPT !.points = RoundDiv(bd[i].points * points, breakdownSum)]]

NormalizeBreakdown(bd, points) ==
  LET clamped == NonNegativeCriteria(bd)
      breakdownSum == SumPoints(clamped)
  IN  IF Abs(breakdownSum - points) > Tolerance /\ breakdownSum > 0
      THEN ScaleCriteria(clamped, points, breakdownSum)
      ELSE clamped

DegradedResultUnflagged(question) ==
  [questionNumber |-> question.questionNumber,
   points |-> 0,
   maxPoints |-> question.maxPoints,
   feedback |-> ErrorFeedback,
   reasoning |-> "Scoring failed",
   confidence |-> "medium",
   flagForReview |-> FALSE,
   criteriaBreakdown |-> << >>]

DegradedResult(question) ==
  [questionNumber |-> question.questionNumber,
   points |-> 0,
   maxPoints |-> question.maxPoints,
   feedback |-> ErrorFeedback,
   reasoning |-> "Scoring failed",
   confidence |-> "low",
   flagForReview |-> TRUE,
   criteriaBreakdown |-> << >>]

ParsedResult(question, resp) ==
  LET points == ClampPoints(OptValue(resp.points), question.maxPoints)
  IN  [questionNumber |-> question.questionNumber,
       points |-> points,
       maxPoints |-> question.maxPoints,
       feedback |-> OrDefault(resp.feedback, "No feedback provided"),
       reasoning |-> OrDefault(resp.reasoning, "No reasoning provided"),
       confidence |-> OrDefault(resp.confidence, "medium"),
       flagForReview |-> (resp.flagForReview = "true"),
       criteriaBreakdown |->
         IF question.hasCriteria /\ Len(resp.criteriaBreakdown) > 0
         THEN NormalizeBreakdown(resp.criteriaBreakdown, points)
         ELSE << >>]

scoreAnswer(question, resp) ==
  IF resp.kind = "ok" THEN ParsedResult(question, resp) ELSE DegradedResult(question)

\* results.sort((a, b) => a.questionNumber - b.questionNumber), stable: the
\* place of the element at position i is the number of elements that have a
\* smaller number, or the same number and a position up to i
SortRank(s, i) ==
  Cardinality({j \in 1..Len(s) :
                 \/ s[j].questionNumber < s[i].questionNumber
                 \/ s[j].questionNumber = s[i].questionNumber /\ j <= i})

SortByNumber(s) == [k \in 1..Len(s) |-> s[CHOOSE i \in 1..Len(s) : SortRank(s, i) = k]]

\* the student answer of a call that was not made yet
NotAsked == <<"not asked">>

AnswersMapGetFirst(extractedAnswers, n) ==
  IF Len(extractedAnswers) = 0 THEN << >> ELSE extractedAnswers[1].studentAnswer

\* answersMap.get(question.questionNumber) || '': the map keeps the last
\* answer set for a number
AnswersMapGet(extractedAnswers, n) ==
  LET hits == {i \in 1..Len(extractedAnswers) : extractedAnswers[i].questionNumber = n}
  IN  IF hits = {} THEN << >>
      ELSE extractedAnswers[CHOOSE i \in hits : \A j \in hits : j <= i].studentAnswer

\* What the scoring adapter may answer for one question: a thrown call,
\* unparseable text, or a parsed object with any of its fields absent or out
\* of range.
Criterion(p, m) == [points |-> p, maxPoints |-> m]

OkResponse(points, feedback, confidence, flag, breakdown) ==
  [kind |-> "ok", points |-> points, feedback |-> feedback, reasoning |-> feedback,
   confidence |-> confidence, flagForReview |-> flag, criteriaBreakdown |-> breakdown]

FailedResponse(kind) ==
  [kind |-> kind, points |-> << >>, feedback |-> "", reasoning |-> "",
   confidence |-> "", flagForReview |-> "none", criteriaBreakdown |-> << >>]

ScoreResponses(question) ==
  { FailedResponse("throw"),
    FailedResponse("unparseable"),
    OkResponse(<< >>, "", "", "none", << >>),
    OkResponse(<<0 - 500>>, "fb", "high", "false", << >>),
    OkResponse(<<question.maxPoints + 10000>>, "fb", "low", "true", << >>),
    OkResponse(<<300>>, "fb", "high", "false", <<Criterion(0 - 100, 100), Criterion(100, 100), Criterion(100, 400)>>),
    OkResponse(<<300>>, "fb", "medium", "false", <<Criterion(0, 500)>>),
    OkResponse(<<100>>, "fb", "certain", "false", << >>) }

NoResponse == FailedResponse("pending")

\* --------------------------------------------------- gemini-vision.service.ts
Answer(n, text) == [questionNumber |-> n, studentAnswer |-> text]

ImageResult(kind, rawText, questions) ==
  [kind |-> kind, rawText |-> rawText, questions |-> questions]

\* What the vision adapter may answer for one image: a thrown call (or no
\* text), text that is not the expected JSON, or a parsed question list.
ImageResponses ==
  { ImageResult("throw", "", << >>),
    ImageResult("unparseable", "raw", << >>),
    ImageResult("parsed", "page", <<Answer(1, <<"a">>)>>),
    ImageResult("parsed", "page", <<Answer(1, <<" ">>)>>),
    ImageResult("parsed", "page", <<Answer(2, <<"b">>), Answer(1, << >>)>>),
    ImageResult("parsed", "page", <<Answer(1, <<"c">>), Answer(0 - 1, <<"x">>)>>) }

\* extractTextFromImage without schemaQuestions: the parsed object, or the raw
\* text with no questions when JSON.parse throws
extractTextFromImage(response) ==
  IF response.kind = "unparseable"
  THEN ImageResult("unparseable", response.rawText, << >>)
  ELSE response

ImageResults == {extractTextFromImage(response) : response \in ImageResponses}

IsBlank(text) == \A i \in 1..Len(text) : text[i] = " "

\* questionMap after the entries of one question list were merged into it;
\* the map is an association list in insertion order
RECURSIVE MapIndex(_, _)
MapIndex(map, n) ==
  IF Len(map) = 0 THEN 0
  ELSE IF map[Len(map)].questionNumber = n THEN Len(map)
       ELSE MapIndex(SubSeq(map, 1, Len(map) - 1), n)

MergeAnswerKeepFirst(map, q) ==
  IF MapIndex(map, q.questionNumber) = 0 THEN Append(map, q) ELSE map

MergeAnswer(map, q) ==
  LET k == MapIndex(map, q.questionNumber)
  IN  IF k = 0 THEN Append(map, q)
      ELSE IF ~IsBlank(q.studentAnswer)
           THEN [map EXCEPT ![k].studentAnswer = map[k].studentAnswer \o q.studentAnswer]
           ELSE map

RECURSIVE MergeQuestions(_, _)
MergeQuestions(map, qs) ==
  IF Len(qs) = 0 THEN map ELSE MergeQuestions(MergeAnswer(map, Head(qs)), Tail(qs))

RECURSIVE MergeResults(_, _)
MergeResults(map, results) ==
  IF Len(results) = 0 THEN map
  ELSE MergeResults(MergeQuestions(map, Head(results).questions), Tail(results))

extractTextFromMultipleImagesUnsorted(results) ==
  [rawText |-> [i \in 1..Len(results) |-> results[i].rawText],
   questions |-> MergeResults(<< >>, results)]

extractTextFromMultipleImages(results) ==
  [rawText |-> [i \in 1..Len(results) |-> results[i].rawText],
   questions |-> SortByNumber(MergeResults(<< >>, results))]

ExtractionThrowsIfAll(results) == \A i \in 1..Len(results) : results[i].kind = "throw"

\* Promise.all rejects as soon as one extractTextFromImage call throws
ExtractionThrows(results) == \E i \in 1..Len(results) : results[i].kind = "throw"

\* ------------------------------------------------------ TestResult model
Statuses == {"pending", "processing", "extracted", "scored", "reviewed", "error"}

NewSubmission(totalPoints) ==
  [status |-> "pending",
   extractedText |-> << >>,
   extractedAnswers |-> << >>,
   scores |-> << >>,
   totalScore |-> 0,
   maxScore |-> totalPoints,
   originalImages |-> 1,
   errorMessage |-> "",
   errorAt |-> 0,
   reviewNotes |-> "",
   reviewedBy |-> "",
   reviewedAt |-> 0]

Fields == DOMAIN NewSubmission(0)

\* built-in validation of the schema types: required strings are non-empty,
\* numbers respect min: 0, confidence is one of its enum values
ValidationOk(doc) ==
  /\ \A i \in 1..Len(doc.extractedAnswers) : doc.extractedAnswers[i].studentAnswer # << >>
  /\ \A i \in 1..Len(doc.scores) :
       /\ doc.scores[i].points >= 0
       /\ doc.scores[i].maxPoints >= 0
       /\ doc.scores[i].feedback # ""
       /\ doc.scores[i].confidence \in {"high", "medium", "low"}
       /\ \A j \in 1..Len(doc.scores[i].criteriaBreakdown) :
            /\ doc.scores[i].criteriaBreakdown[j].points >= 0
            /\ doc.scores[i].criteriaBreakdown[j].maxPoints >= 0

BreakdownConsistent(score) ==
  Len(score.criteriaBreakdown) > 0
    => Abs(SumPoints(score.criteriaBreakdown) - score.points) <= Tolerance

PreSaveOkUnchecked(doc) == TRUE

\* TestResultSchema.pre('save'): throws when a breakdown disagrees
PreSaveOk(doc) == \A i \in 1..Len(doc.scores) : BreakdownConsistent(doc.scores[i])

PreSaveStale(doc) == doc

\* TestResultSchema.pre('save'): the derived totals
PreSave(doc) ==
  IF Len(doc.scores) > 0
  THEN [doc EXCEPT !.totalScore = SumPoints(doc.scores), !.maxScore = SumMaxPoints(doc.scores)]
  ELSE doc

SaveOk(doc) == ValidationOk(doc) /\ PreSaveOk(doc)

\* document.save() writes the paths that differ from what was loaded
SavedRecord(stored, loaded, doc) ==
  [f \in Fields |-> IF PreSave(doc)[f] # loaded[f] THEN PreSave(doc)[f] ELSE stored[f]]

\* ------------------------------------------------------------ requests
\* One request (or background run) in flight: its position, the document it
\* holds in memory, the document as it loaded or last saved it, and the locals
\* of scoreAllAnswersParallel.  failure records what threw ("extraction" or
\* "save"), before the extracted content the request found, pages what the
\* vision adapter did for each image.
ExtractedContent(doc) ==
  [extractedText |-> doc.extractedText, extractedAnswers |-> doc.extractedAnswers]

IdleRequest ==
  [kind |-> "none", pc |-> "idle", outcome |-> "", failure |-> "",
   before |-> [extractedText |-> << >>, extractedAnswers |-> << >>],
   doc |-> NewSubmission(0), loaded |-> NewSubmission(0),
   questions |-> << >>, calls |-> 0,
   window |-> 0, next |-> 1, inflight |-> {}, asked |-> << >>,
   resps |-> << >>, results |-> << >>,
   images |-> << >>, pages |-> << >>, schemaId |-> 0, rows |-> << >>,
   returned |-> << >>,
   body |-> [scores |-> << >>, reviewNotes |-> "none", reviewedBy |-> ""]]

Free(s) == reqs[s].pc \in {"idle", "done"}

\* the handler returns: its locals are gone, its response stays
Done(r, outcome) ==
  [r EXCEPT !.pc = "done", !.outcome = outcome,
            !.doc = IdleRequest.doc, !.loaded = IdleRequest.loaded,
            !.next = 1, !.inflight = {}, !.results = << >>, !.images = << >>]

Failed(r, failure, outcome) == Done([r EXCEPT !.failure = failure], outcome)

\* await testResult.save() inside the route's try block and, when it throws,
\* the catch block that puts the old status back, saves again and rethrows
SaveOrRevert(s, doc, revertStatus) ==
  LET r == reqs[s]
      reverted == [doc EXCEPT !.status = revertStatus]
  IN  IF SaveOk(doc)
      THEN /\ db' = SavedRecord(db, r.loaded, doc)
           /\ reqs' = [reqs EXCEPT ![s] = Done(r, "200")]
      ELSE /\ db' = IF SaveOk(reverted) THEN SavedRecord(db, r.loaded, reverted) ELSE db
           /\ reqs' = [reqs EXCEPT ![s] = Failed(r, "save", "500")]

\* await testResult.save() inside the background run's try block and, when it
\* throws, TestResult.findByIdAndUpdate(testId, {status: 'error', ...})
SaveOrError(s, doc, message) ==
  LET r == reqs[s]
  IN  IF SaveOk(doc)
      THEN /\ db' = SavedRecord(db, r.loaded, doc)
           /\ reqs' = [reqs EXCEPT ![s] = Done(r, "ok")]
           /\ clock' = clock
      ELSE /\ db' = [db EXCEPT !.status = "error", !.errorMessage = message, !.errorAt = clock + 1]
           /\ reqs' = [reqs EXCEPT ![s] = Failed(r, "save", "failed")]
           /\ clock' = clock + 1

StatusRejectedUnlessError(status, allowed) == status \notin (allowed \cup {"error"})

\* if (testResult.status !== "pending") { res.status(400)...; return; }
StatusRejected(status, allowed) == status \notin allowed

\* const testResult = await TestResult.findById(req.params.id)
Load(s, kind) ==
  /\ Free(s)
  /\ reqs' = [reqs EXCEPT ![s] =
       [IdleRequest EXCEPT !.kind = kind, !.pc = "guard", !.doc = db, !.loaded = db,
                           !.before = ExtractedContent(db), !.questions = schema.questions]]
  /\ UNCHANGED <<tests, schema, db, clock>>

GuardAtomic(s, kind, allowed, nextPc) ==
  LET r == reqs[s]
      doc == [r.doc EXCEPT !.status = "processing"]
  IN  /\ r.pc = "guard"
      /\ r.kind = kind
      /\ IF StatusRejected(db.status, allowed)
         THEN /\ reqs' = [reqs EXCEPT ![s] = Done(r, "400")]
              /\ db' = db
         ELSE /\ db' = [db EXCEPT !.status = "processing"]
              /\ reqs' = [reqs EXCEPT ![s] =
                   [r EXCEPT !.pc = nextPc, !.doc = PreSave(doc), !.loaded = PreSave(doc),
                             !.window = ScoreConcurrency,
                             !.asked = [i \in 1..Len(r.questions) |-> NotAsked],
                             !.resps = [i \in 1..Len(r.questions) |-> NoResponse]]]
      /\ UNCHANGED <<tests, schema, clock>>

\* the status guard, then status = "processing" and the first save
Guard(s, kind, allowed, nextPc) ==
  LET r == reqs[s]
      doc == [r.doc EXCEPT !.status = "processing"]
  IN  /\ r.pc = "guard"
      /\ r.kind = kind
      /\ IF StatusRejected(r.doc.status, allowed)
         THEN /\ reqs' = [reqs EXCEPT ![s] = Done(r, "400")]
              /\ db' = db
         ELSE IF SaveOk(doc)
              THEN /\ db' = SavedRecord(db, r.loaded, doc)
                   /\ reqs' = [reqs EXCEPT ![s] =
                        [r EXCEPT !.pc = nextPc, !.doc = PreSave(doc), !.loaded = PreSave(doc),
                                  !.window = ScoreConcurrency,
                                  !.asked = [i \in 1..Len(r.questions) |-> NotAsked],
                                  !.resps = [i \in 1..Len(r.questions) |-> NoResponse]]]
              ELSE /\ db' = db
                   /\ reqs' = [reqs EXCEPT ![s] = Failed(r, "save", "500")]
      /\ UNCHANGED <<tests, schema, clock>>

\* ---------------------------------------------------- POST /:id/process
ProcessLoad(s) == Load(s, "process")

ProcessGuard(s) == Guard(s, "process", {"pending"}, "extract")

WithExtracted(doc, extracted) ==
  [doc EXCEPT !.extractedText = extracted.rawText,
              !.extractedAnswers = extracted.questions,
              !.status = "extracted"]

\* extractTextFromMultipleImages resolves or rejects, then the rest of the route
ProcessExtract(s) ==
  /\ reqs[s].pc = "extract"
  /\ reqs[s].kind = "process"
  /\ \E results \in [1..reqs[s].doc.originalImages -> ImageResults] :
       LET r == [reqs[s] EXCEPT !.images = results, !.calls = Len(results),
                                !.pages = [i \in 1..Len(results) |-> results[i].kind]]
           reverted == [r.doc EXCEPT !.status = "pending"]
       IN  IF ExtractionThrows(results)
           THEN /\ db' = IF SaveOk(reverted) THEN SavedRecord(db, r.loaded, reverted) ELSE db
                /\ reqs' = [reqs EXCEPT ![s] = Failed(r, "extraction", "500")]
           ELSE /\ db' = db
                /\ reqs' = [reqs EXCEPT ![s] = [r EXCEPT !.pc = "store"]]
  /\ UNCHANGED <<tests, schema, clock>>

ProcessStore(s) ==
  /\ reqs[s].pc = "store"
  /\ reqs[s].kind = "process"
  /\ \E extracted \in {extractTextFromMultipleImages(reqs[s].images)} :
       SaveOrRevert(s, WithExtracted(reqs[s].doc, extracted), "pending")
  /\ UNCHANGED <<tests, schema, clock>>

\* ------------------------------------------- scoreAllAnswersParallel
\* one pass of the for loop: slice the next batch and start its calls
ScoreDispatchAll(s) ==
  LET r == reqs[s]
      batch == r.next..Len(r.questions)
  IN  /\ r.pc = "scoring"
      /\ r.inflight = {}
      /\ r.next <= Len(r.questions)
      /\ reqs' = [reqs EXCEPT ![s] =
           [r EXCEPT !.inflight = batch,
                     !.calls = r.calls + Cardinality(batch),
                     !.asked = [i \in 1..Len(r.questions) |->
                                  IF i \in batch
                                  THEN AnswersMapGet(r.doc.extractedAnswers, r.questions[i].questionNumber)
                                  ELSE r.asked[i]]]]
      /\ UNCHANGED <<tests, schema, db, clock>>

ScoreDispatch(s) ==
  LET r == reqs[s]
      batch == r.next..Min(r.next + r.window - 1, Len(r.questions))
  IN  /\ r.pc = "scoring"
      /\ r.inflight = {}
      /\ r.next <= Len(r.questions)
      /\ reqs' = [reqs EXCEPT ![s] =
           [r EXCEPT !.inflight = batch,
                     !.calls = r.calls + Cardinality(batch),
                     !.asked = [i \in 1..Len(r.questions) |->
                                  IF i \in batch
                                  THEN AnswersMapGet(r.doc.extractedAnswers, r.questions[i].questionNumber)
                                  ELSE r.asked[i]]]]
      /\ UNCHANGED <<tests, schema, db, clock>>

BatchResultsFirst(questions, resps, from, to) ==
  [k \in 1..(to - from + 1) |-> scoreAnswer(questions[from + k - 1], resps[from])]

BatchResults(questions, resps, from, to) ==
  [k \in 1..(to - from + 1) |-> scoreAnswer(questions[from + k - 1], resps[from + k - 1])]

ScoreSettleOverlapping(s) ==
  LET r == reqs[s]
  IN  /\ r.pc = "scoring"
      /\ \E p \in r.inflight :
           \E resp \in ScoreResponses(r.questions[p]) :
             LET resps == [r.resps EXCEPT ![p] = resp]
                 last == Min(r.next + r.window - 1, Len(r.questions))
             IN  reqs' = [reqs EXCEPT ![s] =
                   IF r.inflight = {p}
                   THEN [r EXCEPT !.resps = resps, !.inflight = {},
                                  !.results = r.results \o BatchResults(r.questions, resps, r.next, last),
                                  !.next = r.next + 1]
                   ELSE [r EXCEPT !.resps = resps, !.inflight = r.inflight \ {p}]]
      /\ UNCHANGED <<tests, schema, db, clock>>

\* one scoreAnswer call of the batch settles; Promise.all resolves with the
\* last one and the batch results are pushed in batch order
ScoreSettle(s) ==
  LET r == reqs[s]
  IN  /\ r.pc = "scoring"
      /\ \E p \in r.inflight :
           \E resp \in ScoreResponses(r.questions[p]) :
             LET resps == [r.resps EXCEPT ![p] = resp]
                 last == Min(r.next + r.window - 1, Len(r.questions))
             IN  reqs' = [reqs EXCEPT ![s] =
                   IF r.inflight = {p}
                   THEN [r EXCEPT !.resps = resps, !.inflight = {},
                                  !.results = r.results \o BatchResults(r.questions, resps, r.next, last),
                                  !.next = r.next + r.window]
                   ELSE [r EXCEPT !.resps = resps, !.inflight = r.inflight \ {p}]]
      /\ UNCHANGED <<tests, schema, db, clock>>

ScoreAllAnswersParallelDone(r) ==
  r.pc = "scoring" /\ r.inflight = {} /\ r.next > Len(r.questions)

\* results.sort(...); return results
BatchReturn(s) ==
  /\ reqs[s].kind = "batch"
  /\ ScoreAllAnswersParallelDone(reqs[s])
  /\ \E returned \in {SortByNumber(reqs[s].results)} :
       reqs' = [reqs EXCEPT ![s] = Done([reqs[s] EXCEPT !.returned = returned], "returned")]
  /\ UNCHANGED <<tests, schema, db, clock>>

\* ------------------------------------------------------ POST /:id/score
ScoreLoad(s) == Load(s, "score")

ScoreGuard(s) == Guard(s, "score", {"extracted"}, "scoring")

StoredScore(result) ==
  [questionNumber |-> result.questionNumber,
   points |-> result.points,
   maxPoints |-> result.maxPoints,
   feedback |-> result.feedback,
   reasoning |-> result.reasoning,
   confidence |-> result.confidence,
   flagForReview |-> result.flagForReview,
   manuallyAdjusted |-> FALSE,
   criteriaBreakdown |-> result.criteriaBreakdown]

WithScores(doc, results) ==
  [doc EXCEPT !.scores = [i \in 1..Len(results) |-> StoredScore(results[i])],
              !.status = "scored"]

\* the sort at the end of scoreAllAnswersParallel, then the rest of the route
ScoreStore(s) ==
  /\ reqs[s].kind = "score"
  /\ ScoreAllAnswersParallelDone(reqs[s])
  /\ \E scores \in {SortByNumber(reqs[s].results)} :
       SaveOrRevert(s, WithScores(reqs[s].doc, scores), "extracted")
  /\ UNCHANGED <<tests, schema, clock>>

\* ------------------------------------------------------ PUT /:id/review
\* The clock advances when a review is stored, which caps the stored reviews
\* of a run at MaxClock; a rejected review stores no date.
ScoreUpdate(n, points, feedback, flag, hasBreakdown, breakdown) ==
  [questionNumber |-> n, points |-> points, feedback |-> feedback, flagForReview |-> flag,
   hasBreakdown |-> hasBreakdown, criteriaBreakdown |-> breakdown]

\* every kind of update for the first question, and new points for the last
ScoreUpdates ==
  { ScoreUpdate(1, <<0 - 100>>, "", "none", FALSE, << >>),
    ScoreUpdate(1, <<200>>, "", "none", FALSE, << >>),
    ScoreUpdate(1, <<100000>>, "", "none", FALSE, << >>),
    ScoreUpdate(1, << >>, "edited", "true", FALSE, << >>),
    ScoreUpdate(1, << >>, "", "none", TRUE, <<Criterion(200, 200)>>),
    ScoreUpdate(1, << >>, "", "none", TRUE, <<Criterion(0 - 100, 100), Criterion(100000, 100)>>),
    ScoreUpdate(MaxQuestions, <<200>>, "", "none", FALSE, << >>) }

ReviewBodies ==
  {[scores |-> << >>, reviewNotes |-> "note", reviewedBy |-> "rev"]}
    \cup {[scores |-> <<u>>, reviewNotes |-> "none", reviewedBy |-> ""] : u \in ScoreUpdates}

\* testResult.scores.find(s => s.questionNumber === scoreUpdate.questionNumber)
RECURSIVE FindScore(_, _, _)
FindScore(scores, n, i) ==
  IF i > Len(scores) THEN 0
  ELSE IF scores[i].questionNumber = n THEN i
       ELSE FindScore(scores, n, i + 1)

AdjustPoints(score, u) ==
  IF Len(u.points) = 1
  THEN [score EXCEPT !.points = ClampPoints(u.points[1], score.maxPoints), !.manuallyAdjusted = TRUE]
  ELSE score

AdjustFeedback(score, u) ==
  IF u.feedback # "" THEN [score EXCEPT !.feedback = u.feedback] ELSE score

AdjustFlag(score, u) ==
  IF u.flagForReview # "none" THEN [score EXCEPT !.flagForReview = (u.flagForReview = "true")] ELSE score

AdjustBreakdown(score, u) ==
  IF u.hasBreakdown
  THEN [score EXCEPT !.criteriaBreakdown = NonNegativeCriteria(u.criteriaBreakdown),
                     !.points = SumPoints(NonNegativeCriteria(u.criteriaBreakdown)),
                     !.manuallyAdjusted = TRUE]
  ELSE score

ApplyScoreUpdateOrCreate(scores, u) ==
  LET k == FindScore(scores, u.questionNumber, 1)
  IN  IF k = 0
      THEN Append(scores, [questionNumber |-> u.questionNumber,
                           points |-> OptValue(u.points),
                           maxPoints |-> OptValue(u.points),
                           feedback |-> "added",
                           reasoning |-> "added",
                           confidence |-> "medium",
                           flagForReview |-> FALSE,
                           manuallyAdjusted |-> TRUE,
                           criteriaBreakdown |-> << >>])
      ELSE [scores EXCEPT ![k] = AdjustBreakdown(AdjustFlag(AdjustFeedback(AdjustPoints(scores[k], u), u), u), u)]

\* if (existingScore) { ... }: an update for a number without a score is skipped
ApplyScoreUpdate(scores, u) ==
  LET k == FindScore(scores, u.questionNumber, 1)
  IN  IF k = 0 THEN scores
      ELSE [scores EXCEPT ![k] = AdjustBreakdown(AdjustFlag(AdjustFeedback(AdjustPoints(scores[k], u), u), u), u)]

RECURSIVE ApplyScoreUpdates(_, _)
ApplyScoreUpdates(scores, us) ==
  IF Len(us) = 0 THEN scores ELSE ApplyScoreUpdates(ApplyScoreUpdate(scores, Head(us)), Tail(us))

ReviewedAgainstSchema(doc, body, now) ==
  [doc EXCEPT !.scores = [i \in 1..Len(doc.scores) |->
                            [ApplyScoreUpdates(doc.scores, body.scores)[i] EXCEPT
                               !.maxPoints = SumMaxPoints(schema.questions)]],
              !.reviewedAt = now,
              !.status = "reviewed"]

Reviewed(doc, body, now) ==
  [doc EXCEPT !.scores = ApplyScoreUpdates(doc.scores, body.scores),
              !.reviewNotes = IF body.reviewNotes # "none" THEN body.reviewNotes ELSE doc.reviewNotes,
              !.reviewedBy = IF body.reviewedBy # "" THEN body.reviewedBy ELSE doc.reviewedBy,
              !.reviewedAt = now,
              !.status = "reviewed"]

ReviewLoad(s) == Load(s, "review")

ReviewSaveDirty(s) ==
  LET r == reqs[s]
  IN  /\ r.pc = "guard"
      /\ r.kind = "review"
      /\ IF StatusRejected(r.doc.status, {"scored", "reviewed"})
         THEN /\ reqs' = [reqs EXCEPT ![s] = Done(r, "400")]
              /\ UNCHANGED <<db, clock>>
         ELSE \E body \in ReviewBodies :
                LET doc == Reviewed(r.doc, body, clock + 1)
                IN  IF SaveOk(doc)
                    THEN /\ clock < MaxClock
                         /\ clock' = clock + 1
                         /\ db' = SavedRecord(db, r.loaded, doc)
                         /\ reqs' = [reqs EXCEPT ![s] = Done([r EXCEPT !.body = body], "200")]
                    ELSE /\ clock' = clock
                         /\ db' = [db EXCEPT !.status = doc.status, !.reviewNotes = doc.reviewNotes]
                         /\ reqs' = [reqs EXCEPT ![s] = Failed([r EXCEPT !.body = body], "save", "500")]
      /\ UNCHANGED <<tests, schema>>

\* the guard, the updates of the body, the review metadata and the one save
ReviewSave(s) ==
  LET r == reqs[s]
  IN  /\ r.pc = "guard"
      /\ r.kind = "review"
      /\ IF StatusRejected(r.doc.status, {"scored", "reviewed"})
         THEN /\ reqs' = [reqs EXCEPT ![s] = Done(r, "400")]
              /\ UNCHANGED <<db, clock>>
         ELSE \E body \in ReviewBodies :
                LET doc == Reviewed(r.doc, body, clock + 1)
                IN  IF SaveOk(doc)
                    THEN /\ clock < MaxClock
                         /\ clock' = clock + 1
                         /\ db' = SavedRecord(db, r.loaded, doc)
                         /\ reqs' = [reqs EXCEPT ![s] = Done([r EXCEPT !.body = body], "200")]
                    ELSE /\ clock' = clock
                         /\ db' = db
                         /\ reqs' = [reqs EXCEPT ![s] = Failed([r EXCEPT !.body = body], "save", "500")]
      /\ UNCHANGED <<tests, schema>>

\* ----------------------------------- processTestInBackground and its route
\* TestResult.findByIdAndUpdate(testId, {status: 'error', errorMessage, errorAt})
MarkError(s, r, message) ==
  /\ db' = [db EXCEPT !.status = "error", !.errorMessage = message, !.errorAt = clock + 1]
  /\ reqs' = [reqs EXCEPT ![s] = Failed(r, "extraction", "failed")]
  /\ clock' = clock + 1

ProcessAsyncLoad(s) == clock < MaxClock /\ Load(s, "processAsync")

ProcessAsyncGuard(s) == Guard(s, "processAsync", {"pending"}, "bgload")

\* const testResult = await TestResult.findById(testId) in the background run
BackgroundLoad(s) ==
  LET r == reqs[s]
  IN  /\ r.pc = "bgload"
      /\ reqs' = [reqs EXCEPT ![s] =
           [r EXCEPT !.doc = db, !.loaded = db, !.questions = schema.questions,
                     !.window = ScoreConcurrency,
                     !.asked = [i \in 1..Len(schema.questions) |-> NotAsked],
                     !.resps = [i \in 1..Len(schema.questions) |-> NoResponse],
                     !.pc = IF r.kind = "processAsync" THEN "extract" ELSE "scoring"]]
      /\ UNCHANGED <<tests, schema, db, clock>>

BackgroundExtract(s) ==
  /\ reqs[s].pc = "extract"
  /\ reqs[s].kind = "processAsync"
  /\ \E results \in [1..reqs[s].doc.originalImages -> ImageResults] :
       LET r == [reqs[s] EXCEPT !.images = results, !.calls = Len(results),
                                !.pages = [i \in 1..Len(results) |-> results[i].kind]]
       IN  IF ExtractionThrows(results)
           THEN MarkError(s, r, "Processing failed")
           ELSE /\ reqs' = [reqs EXCEPT ![s] = [r EXCEPT !.pc = "store"]]
                /\ UNCHANGED <<db, clock>>
  /\ UNCHANGED <<tests, schema>>

BackgroundProcessStore(s) ==
  LET r == reqs[s]
  IN  /\ r.pc = "store"
      /\ r.kind = "processAsync"
      /\ \E extracted \in {extractTextFromMultipleImages(r.images)} :
           SaveOrError(s, [WithExtracted(r.doc, extracted) EXCEPT !.errorMessage = ""], "Processing failed")
      /\ UNCHANGED <<tests, schema>>

\* ------------------------------------- scoreTestInBackground and its route
ScoreAsyncLoad(s) == clock < MaxClock /\ Load(s, "scoreAsync")

ScoreAsyncGuard(s) == Guard(s, "scoreAsync", {"extracted"}, "bgload")

\* the background mapping of the results leaves criteriaBreakdown out
WithBackgroundScores(doc, results) ==
  [doc EXCEPT !.scores = [i \in 1..Len(results) |-> [StoredScore(results[i]) EXCEPT !.criteriaBreakdown = << >>]],
              !.status = "scored",
              !.errorMessage = ""]

BackgroundScoreStore(s) ==
  /\ reqs[s].kind = "scoreAsync"
  /\ ScoreAllAnswersParallelDone(reqs[s])
  /\ \E scores \in {SortByNumber(reqs[s].results)} :
       SaveOrError(s, WithBackgroundScores(reqs[s].doc, scores), "Scoring failed")
  /\ UNCHANGED <<tests, schema>>

\* ------------------------------------------------------ POST /:id/retry
RetryLoad(s) == Load(s, "retry")

Retried(doc) ==
  IF Len(doc.extractedAnswers) > 0
  THEN [doc EXCEPT !.status = "extracted", !.errorMessage = ""]
  ELSE [doc EXCEPT !.status = "pending", !.errorMessage = "", !.extractedText = << >>]

RetrySave(s) ==
  LET r == reqs[s]
  IN  /\ r.pc = "guard"
      /\ r.kind = "retry"
      /\ IF StatusRejected(r.doc.status, {"error"})
         THEN /\ reqs' = [reqs EXCEPT ![s] = Done(r, "400")]
              /\ db' = db
         ELSE IF SaveOk(Retried(r.doc))
              THEN /\ db' = SavedRecord(db, r.loaded, Retried(r.doc))
                   /\ reqs' = [reqs EXCEPT ![s] = Done(r, "200")]
              ELSE /\ db' = db
                   /\ reqs' = [reqs EXCEPT ![s] = Failed(r, "save", "500")]
      /\ UNCHANGED <<tests, schema, clock>>

\* ------------------------------------------------------ schema routes
\* a request body: name stands for the required name and rubricGuidelines,
\* hasQuestions says whether questions was sent, totalPoints is a value the
\* client may add
SchemaBody(name, hasQuestions, questions, totalPoints) ==
  [name |-> name, hasQuestions |-> hasQuestions, questions |-> questions, totalPoints |-> totalPoints]

SchemaBodies ==
  { SchemaBody("", TRUE, Descending(1), << >>),
    SchemaBody("exam", FALSE, << >>, <<9900>>),
    SchemaBody("exam", TRUE, << >>, << >>),
    SchemaBody("exam", TRUE, Descending(1), <<9900>>),
    SchemaBody("exam", TRUE, Descending(MaxQuestions), << >>),
    SchemaBody("exam", TRUE, <<[Question(1) EXCEPT !.maxPoints = 700]>>, <<9900>>),
    SchemaBody("exam", TRUE, <<[Question(1) EXCEPT !.maxPoints = 0 - 100]>>, << >>) }

SchemaResponse(kind, body, outcome) ==
  Done([IdleRequest EXCEPT !.kind = kind, !.body = body], outcome)

\* POST /api/schemas
SchemaCreate(s) ==
  /\ Free(s)
  /\ ~schema.exists
  /\ \E body \in SchemaBodies :
       LET doc == NewSchema(body.questions)
       IN  IF body.name = "" \/ ~body.hasQuestions \/ Len(body.questions) = 0
           THEN /\ schema' = schema
                /\ reqs' = [reqs EXCEPT ![s] = SchemaResponse("schemaCreate", body, "400")]
           ELSE IF SchemaValidationOk(doc)
                THEN /\ schema' = SchemaSaved(doc)
                     /\ reqs' = [reqs EXCEPT ![s] = SchemaResponse("schemaCreate", body, "201")]
                ELSE /\ schema' = schema
                     /\ reqs' = [reqs EXCEPT ![s] = SchemaResponse("schemaCreate", body, "400")]
  /\ UNCHANGED <<db, clock, tests>>

\* PUT /api/schemas/:id
SchemaUpdate(s) ==
  /\ Free(s)
  /\ \E body \in SchemaBodies :
       LET doc == IF body.hasQuestions THEN [schema EXCEPT !.questions = body.questions] ELSE schema
       IN  IF ~schema.exists
           THEN /\ schema' = schema
                /\ reqs' = [reqs EXCEPT ![s] = SchemaResponse("schemaUpdate", body, "404")]
           ELSE IF SchemaValidationOk(doc)
                THEN /\ schema' = SchemaSaved(doc)
                     /\ reqs' = [reqs EXCEPT ![s] = SchemaResponse("schemaUpdate", body, "200")]
                ELSE /\ schema' = schema
                     /\ reqs' = [reqs EXCEPT ![s] = SchemaResponse("schemaUpdate", body, "400")]
  /\ UNCHANGED <<db, clock, tests>>

\* DELETE /api/schemas/:id
SchemaDelete(s) ==
  /\ Free(s)
  /\ IF schema.exists
     THEN /\ schema' = NoSchema
          /\ reqs' = [reqs EXCEPT ![s] = SchemaResponse("schemaDelete", IdleRequest.body, "200")]
     ELSE /\ schema' = schema
          /\ reqs' = [reqs EXCEPT ![s] = SchemaResponse("schemaDelete", IdleRequest.body, "404")]
  /\ UNCHANGED <<db, clock, tests>>

\* ------------------------------------------------- GET /export/csv
\* The TestResult collection as the export query sees it: the documents in
\* creation order, each with the schema it references, its status and the
\* number of criteria in the breakdown of its score for each schema question,
\* and the ids of the schemas that still exist.  Every schema has the same
\* two questions.
SchemaIds == {1, 2}

ExportQuestions == Descending(2)

TestDoc(id, schemaId, status) ==
  [id |-> id, schemaId |-> schemaId, status |-> status,
   criteria |-> [j \in 1..Len(ExportQuestions) |-> 0]]

RECURSIVE Collections(_)
Collections(n) ==
  IF n = 0 THEN {<< >>}
  ELSE Collections(n - 1)
         \cup {Append(docs, TestDoc(Len(docs) + 1, schemaId, status)) :
                 docs \in {c \in Collections(n - 1) : Len(c) = n - 1},
                 schemaId \in SchemaIds, status \in Statuses}

NoTests == [docs |-> << >>, schemas |-> {}]

ExportableAnyStatus(doc, schemaId) == doc.schemaId = schemaId

\* TestResult.find({status: {$in: ["scored", "reviewed"]}, schemaId})
Exportable(doc, schemaId) ==
  doc.status \in {"scored", "reviewed"} /\ doc.schemaId = schemaId

\* .sort({createdAt: -1}): newest first
RECURSIVE FindExportable(_, _)
FindExportable(docs, schemaId) ==
  IF Len(docs) = 0 THEN << >>
  ELSE IF Exportable(docs[Len(docs)], schemaId)
       THEN <<docs[Len(docs)]>> \o FindExportable(SubSeq(docs, 1, Len(docs) - 1), schemaId)
       ELSE FindExportable(SubSeq(docs, 1, Len(docs) - 1), schemaId)

\* cells repeated n times
RECURSIVE Repeat(_, _)
Repeat(cells, n) == IF n <= 0 THEN << >> ELSE cells \o Repeat(cells, n - 1)

\* Math.max(...tests.map(t => score?.criteriaBreakdown?.length || 0))
RECURSIVE MaxCriteriaOf(_, _)
MaxCriteriaOf(found, j) ==
  IF Len(found) = 0 THEN 0 ELSE Max(Head(found).criteria[j], MaxCriteriaOf(Tail(found), j))

\* questionHeaders for the questions from position j on: score and feedback,
\* and two columns per criterion when some test has a breakdown for the question
RECURSIVE QuestionHeaders(_, _)
QuestionHeaders(found, j) ==
  IF j > Len(ExportQuestions) THEN << >>
  ELSE <<"Score", "Feedback">>
         \o Repeat(<<"Criterion", "Criterion Points">>, MaxCriteriaOf(found, j))
         \o QuestionHeaders(found, j + 1)

\* the header row; schema is tests[0].scoringSchema, and schema?.questions || []
CsvHeaders(found, schemas) ==
  <<"Candidate Name", "Schema", "Status", "Total Score", "Max Score", "Percentage">>
    \o (IF found[1].schemaId \in schemas THEN QuestionHeaders(found, 1) ELSE << >>)
    \o <<"Review Notes", "Reviewed By", "Reviewed At", "Created At">>

\* questionData of a test for the questions from position j on
RECURSIVE QuestionData(_, _)
QuestionData(doc, j) ==
  IF j > Len(ExportQuestions) THEN << >>
  ELSE <<"points/maxPoints", "feedback">>
         \o Repeat(<<"criterionText", "points/maxPoints">>, doc.criteria[j])
         \o QuestionData(doc, j + 1)

\* one element of rows: the cells of a test, none when its schema is gone
CsvRow(doc, schemas) ==
  IF doc.schemaId \in schemas
  THEN <<doc.id, doc.schemaId, doc.status, "totalScore", "maxScore", "percentage">>
         \o QuestionData(doc, 1)
         \o <<"reviewNotes", "reviewedBy", "reviewedAt", "createdAt">>
  ELSE << >>

\* schemaId 0 is a request without the query parameter
Export(s) ==
  /\ Free(s)
  /\ \E schemaId \in {0} \cup SchemaIds :
       LET r == [IdleRequest EXCEPT !.kind = "export", !.schemaId = schemaId]
           found == FindExportable(tests.docs, schemaId)
       IN  reqs' = [reqs EXCEPT ![s] =
             IF schemaId = 0 THEN Done(r, "400")
             ELSE IF Len(found) = 0 THEN Done(r, "404")
             ELSE Done([r EXCEPT !.returned = CsvHeaders(found, tests.schemas),
                                 !.rows = [i \in 1..Len(found) |-> CsvRow(found[i], tests.schemas)]], "200")]
  /\ UNCHANGED <<schema, db, clock, tests>>

\* ------------------------------------------------------ specification
\* One request is served at a time; the state after POST /upload is a pending
\* submission of a stored schema.
Slots == {1}

Init ==
  /\ \E upload \in Uploads :
       /\ schema = SchemaSaved(NewSchema(upload[1]))
       /\ db = [NewSubmission(SchemaSaved(NewSchema(upload[1])).totalPoints)
                  EXCEPT !.originalImages = upload[2]]
  /\ reqs = [s \in Slots |-> IdleRequest]
  /\ clock = 0
  /\ tests = NoTests

Next ==
  \/ \E s \in Slots : ProcessLoad(s)
  \/ \E s \in Slots : ProcessGuard(s)
  \/ \E s \in Slots : ProcessExtract(s)
  \/ \E s \in Slots : ProcessStore(s)
  \/ \E s \in Slots : ScoreLoad(s)
  \/ \E s \in Slots : ScoreGuard(s)
  \/ \E s \in Slots : ScoreDispatch(s)
  \/ \E s \in Slots : ScoreSettle(s)
  \/ \E s \in Slots : ScoreStore(s)
  \/ \E s \in Slots : ReviewLoad(s)
  \/ \E s \in Slots : ReviewSave(s)
  \/ \E s \in Slots : ProcessAsyncLoad(s)
  \/ \E s \in Slots : ProcessAsyncGuard(s)
  \/ \E s \in Slots : BackgroundLoad(s)
  \/ \E s \in Slots : BackgroundExtract(s)
  \/ \E s \in Slots : BackgroundProcessStore(s)
  \/ \E s \in Slots : ScoreAsyncLoad(s)
  \/ \E s \in Slots : ScoreAsyncGuard(s)
  \/ \E s \in Slots : BackgroundScoreStore(s)
  \/ \E s \in Slots : RetryLoad(s)
  \/ \E s \in Slots : RetrySave(s)

Spec == Init /\ [][Next]_vars

\* A handler or background run that was started runs on: each await resolves
\* or rejects and the code after it is executed.  Nothing obliges a client to
\* send a request.
HandlerStep(s) ==
  \/ ProcessGuard(s)
  \/ ProcessExtract(s)
  \/ ProcessStore(s)
  \/ ScoreGuard(s)
  \/ ScoreDispatch(s)
  \/ ScoreSettle(s)
  \/ ScoreStore(s)
  \/ ReviewSave(s)
  \/ ProcessAsyncGuard(s)
  \/ BackgroundLoad(s)
  \/ BackgroundExtract(s)
  \/ BackgroundProcessStore(s)
  \/ ScoreAsyncGuard(s)
  \/ BackgroundScoreStore(s)
  \/ RetrySave(s)

\* a one-page submission of the one-question schema
LiveInit == Init /\ Len(schema.questions) = 1 /\ db.originalImages = 1

LiveSpec == LiveInit /\ [][Next]_vars /\ \A s \in Slots : WF_vars(HandlerStep(s))

\* The schema routes next to a submission that was scored against the schema
\* and is being reviewed.
ScoredResponses ==
  {resp \in ScoreResponses(Question(1)) : resp.kind = "throw" \/ Len(resp.criteriaBreakdown) = 3}

ScoredSubmission(questions, totalPoints, resps) ==
  PreSave(WithScores([NewSubmission(totalPoints) EXCEPT !.extractedText = <<"page">>,
                                                        !.extractedAnswers = <<Answer(1, <<"a">>)>>],
                     SortByNumber(BatchResults(questions, resps, 1, Len(questions)))))

SchemaInit ==
  /\ \E questions \in SchemaLists :
       /\ schema = SchemaSaved(NewSchema(questions))
       /\ \E resps \in [1..Len(questions) -> ScoredResponses] :
            /\ db = ScoredSubmission(questions, SchemaSaved(NewSchema(questions)).totalPoints, resps)
            /\ SaveOk(db)
  /\ reqs = [s \in Slots |-> IdleRequest]
  /\ clock = 0
  /\ tests = NoTests

SchemaNext ==
  \/ \E s \in Slots : SchemaCreate(s)
  \/ \E s \in Slots : SchemaUpdate(s)
  \/ \E s \in Slots : SchemaDelete(s)
  \/ \E s \in Slots : ReviewLoad(s)
  \/ \E s \in Slots : ReviewSave(s)

SchemaSpec == SchemaInit /\ [][SchemaNext]_vars

\* scoreAllAnswersParallel called with every question list of up to
\* MaxBatchQuestions questions and every window size up to MaxWindow.
BatchCall(questions, concurrency) ==
  [IdleRequest EXCEPT !.kind = "batch", !.pc = "scoring",
                      !.doc = [NewSubmission(0) EXCEPT !.extractedAnswers = <<Answer(1, <<"a">>)>>],
                      !.questions = questions,
                      !.window = concurrency,
                      !.asked = [i \in 1..Len(questions) |-> NotAsked],
                      !.resps = [i \in 1..Len(questions) |-> NoResponse]]

BatchInit ==
  /\ schema = NoSchema
  /\ db = NewSubmission(0)
  /\ clock = 0
  /\ tests = NoTests
  /\ \E n \in 0..MaxBatchQuestions, concurrency \in 1..MaxWindow :
       reqs = [s \in Slots |-> BatchCall(Descending(n), concurrency)]

BatchNext ==
  \/ \E s \in Slots : ScoreDispatch(s)
  \/ \E s \in Slots : ScoreSettle(s)
  \/ \E s \in Slots : BatchReturn(s)

BatchSpec == BatchInit /\ [][BatchNext]_vars

\* weak fairness of the steps of the batch: every adapter call settles and the
\* code after each await runs
BatchStep(s) == ScoreDispatch(s) \/ ScoreSettle(s) \/ BatchReturn(s)

BatchLiveSpec == BatchInit /\ [][BatchNext]_vars /\ \A s \in Slots : WF_vars(BatchStep(s))

\* The export route over every collection of up to MaxTests submissions.
ExportInit ==
  /\ schema = SchemaSaved(NewSchema(Descending(1)))
  /\ db = NewSubmission(SchemaSaved(NewSchema(Descending(1))).totalPoints)
  /\ reqs = [s \in Slots |-> IdleRequest]
  /\ clock = 0
  /\ \E docs \in Collections(MaxTests), schemas \in SUBSET SchemaIds :
       tests = [docs |-> docs, schemas |-> schemas]

ExportNext == \E s \in Slots : Export(s)

ExportSpec == ExportInit /\ [][ExportNext]_vars

\* The export route over the scored submissions of one schema, with every
\* number of criteria up to two in the breakdown of each score.
CriteriaCounts == [1..Len(ExportQuestions) -> 0..2]

CsvInit ==
  /\ schema = SchemaSaved(NewSchema(ExportQuestions))
  /\ db = NewSubmission(schema.totalPoints)
  /\ reqs = [s \in Slots |-> IdleRequest]
  /\ clock = 0
  /\ \E n \in 1..MaxTests, schemas \in {{}, {1}} :
       \E criteria \in [1..n -> CriteriaCounts] :
         tests = [docs |-> [i \in 1..n |-> [TestDoc(i, 1, "scored") EXCEPT !.criteria = criteria[i]]],
                  schemas |-> schemas]

CsvSpec == CsvInit /\ [][ExportNext]_vars

\* extractTextFromMultipleImages over every list of up to MaxImages per-image
\* results whose question lists have up to two entries, a number may repeat
\* within a page and across pages.
MergeTexts == {<< >>, <<"a">>}

MergeAnswers == {Answer(n, text) : n \in {1, 2}, text \in MergeTexts}

MergePages ==
  {<< >>} \cup {<<q>> : q \in MergeAnswers} \cup {<<q1, q2>> : q1 \in MergeAnswers, q2 \in MergeAnswers}

MergeCall(results) ==
  [IdleRequest EXCEPT !.kind = "merge", !.pc = "merging", !.images = results,
                      !.calls = Len(results),
                      !.pages = [i \in 1..Len(results) |-> results[i].kind]]

MergeInit ==
  /\ schema = NoSchema
  /\ db = NewSubmission(0)
  /\ clock = 0
  /\ tests = NoTests
  /\ \E n \in 1..MaxImages :
       \E pages \in [1..n -> MergePages] :
         reqs = [s \in Slots |->
                   MergeCall([i \in 1..n |-> ImageResult("parsed", "page", pages[i])])]

\* return combined: the caller keeps the per-image results it passed
MergeReturn(s) ==
  LET r == reqs[s]
  IN  /\ r.kind = "merge"
      /\ r.pc = "merging"
      /\ reqs' = [reqs EXCEPT ![s] =
           [Done(r, "returned") EXCEPT
              !.images = r.images,
              !.returned = extractTextFromMultipleImages(r.images).questions]]
      /\ UNCHANGED <<schema, db, clock, tests>>

MergeNext == \E s \in Slots : MergeReturn(s)

MergeSpec == MergeInit /\ [][MergeNext]_vars

\* scoreAnswer for one question and every adapter answer with a breakdown of up
\* to MaxCriteria criteria.
BreakdownPoints == {0, 100, 300}

Breakdowns ==
  UNION {[1..n -> {Criterion(p, 100) : p \in BreakdownPoints}] : n \in 1..MaxCriteria}

ScoreAnswerResponses ==
  {FailedResponse("throw")}
    \cup {OkResponse(<<p>>, "fb", "high", "false", bd) : p \in {0, 250, 300}, bd \in Breakdowns}

ScoreAnswerCall(question) ==
  [IdleRequest EXCEPT !.kind = "scoreAnswer", !.pc = "asking",
                      !.questions = <<question>>,
                      !.asked = <<NotAsked>>,
                      !.resps = <<NoResponse>>]

ScoreAnswerInit ==
  /\ schema = NoSchema
  /\ db = NewSubmission(0)
  /\ clock = 0
  /\ tests = NoTests
  /\ \E n \in {1, 2} : reqs = [s \in Slots |-> ScoreAnswerCall(Question(n))]

\* the adapter answers and scoreAnswer returns its result
ScoreAnswerReturn(s) ==
  LET r == reqs[s]
  IN  /\ r.kind = "scoreAnswer"
      /\ r.pc = "asking"
      /\ \E resp \in ScoreAnswerResponses :
           reqs' = [reqs EXCEPT ![s] =
             Done([r EXCEPT !.calls = 1, !.asked = << << >> >>, !.resps = <<resp>>,
                            !.returned = <<scoreAnswer(r.questions[1], resp)>>], "returned")]
      /\ UNCHANGED <<schema, db, clock, tests>>

ScoreAnswerNext == \E s \in Slots : ScoreAnswerReturn(s)

ScoreAnswerSpec == ScoreAnswerInit /\ [][ScoreAnswerNext]_vars

\* Three clients that each send one process, score or review request for the
\* same submission, which is pending or already extracted; the steps of the
\* handlers interleave at every await.
Clients == {1, 2, 3}

ExtractedSubmission(totalPoints) ==
  PreSave(WithExtracted(NewSubmission(totalPoints),
                        extractTextFromMultipleImages(<<ImageResult("parsed", "page", <<Answer(1, <<"a">>)>>)>>)))

ConcurrentInit ==
  /\ schema = SchemaSaved(NewSchema(Descending(1)))
  /\ db \in {NewSubmission(schema.totalPoints), ExtractedSubmission(schema.totalPoints)}
  /\ reqs = [s \in Clients |-> IdleRequest]
  /\ clock = 0
  /\ tests = NoTests

ConcurrentNext ==
  \/ \E s \in Clients : reqs[s].pc = "idle" /\ ProcessLoad(s)
  \/ \E s \in Clients : ProcessGuard(s)
  \/ \E s \in Clients : ProcessExtract(s)
  \/ \E s \in Clients : ProcessStore(s)
  \/ \E s \in Clients : reqs[s].pc = "idle" /\ ScoreLoad(s)
  \/ \E s \in Clients : ScoreGuard(s)
  \/ \E s \in Clients : ScoreDispatch(s)
  \/ \E s \in Clients : ScoreSettle(s)
  \/ \E s \in Clients : ScoreStore(s)
  \/ \E s \in Clients : reqs[s].pc = "idle" /\ ReviewLoad(s)
  \/ \E s \in Clients : ReviewSave(s)

ConcurrentSpec == ConcurrentInit /\ [][ConcurrentNext]_vars

TypeOK ==
  /\ db.status \in Statuses
  /\ clock \in 0..MaxClock
  /\ \A s \in Slots : reqs[s].calls <= Max(MaxImages, MaxQuestions)

\* ------------------------------------------------------------ properties
Finished(s, kinds) == reqs[s].pc = "done" /\ reqs[s].kind \in kinds

IsSortedByNumber(results) ==
  \A i \in 1..(Len(results) - 1) : results[i].questionNumber <= results[i + 1].questionNumber

\* the entry of a result list that belongs to the question at position p
ResultFor(results, r, p) == results[FindScore(results, r.questions[p].questionNumber, 1)]

\* C1: when scoreAllAnswersParallel returns, it returns one result per schema
\* question, sorted by question number; a question whose call threw or gave
\* unparseable output has the degraded result (0 points, low confidence,
\* flagged, the fixed feedback), and every other question has the result its
\* own adapter answer determines, whatever happened to the other calls.
C1_DegradedContainment ==
  \A s \in Slots :
    ScoreAllAnswersParallelDone(reqs[s]) =>
      LET r == reqs[s]
          returned == SortByNumber(r.results)
      IN  /\ Len(returned) = Len(r.questions)
          /\ IsSortedByNumber(returned)
          /\ \A p \in 1..Len(r.questions) :
               /\ FindScore(returned, r.questions[p].questionNumber, 1) # 0
               /\ ResultFor(returned, r, p).maxPoints = r.questions[p].maxPoints
               /\ IF r.resps[p].kind # "ok"
                  THEN /\ ResultFor(returned, r, p).points = 0
                       /\ ResultFor(returned, r, p).confidence = "low"
                       /\ ResultFor(returned, r, p).flagForReview = TRUE
                       /\ ResultFor(returned, r, p).feedback = "Error during scoring. Please review manually."
                  ELSE ResultFor(returned, r, p) = ParsedResult(r.questions[p], r.resps[p])

C1_Witness ==
  \E s \in Slots :
    /\ ScoreAllAnswersParallelDone(reqs[s])
    /\ Len(reqs[s].questions) >= 2
    /\ \E p, q \in 1..Len(reqs[s].questions) :
         reqs[s].resps[p].kind = "throw" /\ reqs[s].resps[q].kind = "ok"

\* C2: the points a scoring run stored for a question lie in [0, maxPoints]:
\* an adapter value below 0 is stored as 0, one above maxPoints as maxPoints,
\* a missing or zero one as 0.
C2_ClampProperty ==
  \A s \in Slots :
    (Finished(s, {"score", "scoreAsync"}) /\ reqs[s].outcome \in {"200", "ok"}) =>
      \A p \in 1..Len(reqs[s].questions) :
        LET question == reqs[s].questions[p]
            resp == reqs[s].resps[p]
            stored == ResultFor(db.scores, reqs[s], p)
        IN  /\ FindScore(db.scores, question.questionNumber, 1) # 0
            /\ 0 <= stored.points
            /\ stored.points <= question.maxPoints
            /\ (resp.kind = "ok" /\ OptValue(resp.points) <= 0) => stored.points = 0
            /\ (resp.kind = "ok" /\ OptValue(resp.points) >= question.maxPoints)
                  => stored.points = question.maxPoints

C2_Witness ==
  \E s \in Slots :
    /\ Finished(s, {"score"})
    /\ reqs[s].outcome = "200"
    /\ \E p, q \in 1..Len(reqs[s].questions) :
         /\ reqs[s].resps[p].kind = "ok"
         /\ OptValue(reqs[s].resps[p].points) > reqs[s].questions[p].maxPoints
         /\ ResultFor(db.scores, reqs[s], p).points = reqs[s].questions[p].maxPoints
         /\ reqs[s].resps[q].kind = "ok"
         /\ OptValue(reqs[s].resps[q].points) < 0
         /\ ResultFor(db.scores, reqs[s], q).points = 0

\* the statuses from which a request of this kind is permitted
Permitted(kind) ==
  IF kind = "process" THEN {"pending"}
  ELSE IF kind = "score" THEN {"extracted"}
  ELSE {"scored", "reviewed"}

\* C3: a process, score or review request that finds the submission in a
\* status that does not permit it is rejected at its guard, has called no
\* adapter, and leaves the stored submission as it was.
C3_InvalidTransitionRejected ==
  [][\A s \in Slots :
       ( /\ reqs[s].pc = "guard"
         /\ reqs[s].kind \in {"process", "score", "review"}
         /\ db.status \notin Permitted(reqs[s].kind)
         /\ reqs'[s] # reqs[s] )
       => ( /\ reqs'[s].pc = "done"
            /\ reqs'[s].outcome = "400"
            /\ reqs'[s].calls = 0
            /\ db' = db )]_vars

C3_Witness ==
  \E s \in Slots :
    /\ Finished(s, {"score"})
    /\ reqs[s].outcome = "400"
    /\ db.status = "reviewed"

\* C4: a process run whose extraction threw leaves the submission in status
\* error with errorMessage and errorAt set (and not back in pending).
C4_ExtractionFailureEndsInError ==
  \A s \in Slots :
    (Finished(s, {"process", "processAsync"}) /\ reqs[s].failure = "extraction") =>
      /\ db.status = "error"
      /\ db.errorMessage # ""
      /\ db.errorAt # 0

\* C5: a score run that failed after the submission left extracted leaves it
\* in status error with errorMessage and errorAt set (and not back in
\* extracted), with the extracted text and answers it had before.
C5_ScoringFailureEndsInError ==
  \A s \in Slots :
    (Finished(s, {"score", "scoreAsync"}) /\ reqs[s].failure # "") =>
      /\ db.status = "error"
      /\ db.errorMessage # ""
      /\ db.errorAt # 0
      /\ ExtractedContent(db) = reqs[s].before

\* C6: a score request on an extracted submission ends with status scored and
\* one stored score per schema question, whatever the adapter answered.
C6_ScoreRequestContainment ==
  \A s \in Slots :
    (Finished(s, {"score"}) /\ reqs[s].outcome # "400") =>
      /\ db.status = "scored"
      /\ Len(db.scores) = Len(reqs[s].questions)

\* C7: every stored score with a non-empty criteriaBreakdown has a breakdown
\* sum within 0.01 of its points.
C7_BreakdownConsistency ==
  \A i \in 1..Len(db.scores) :
    Len(db.scores[i].criteriaBreakdown) > 0 =>
      /\ SumPoints(db.scores[i].criteriaBreakdown) - db.scores[i].points <= Tolerance
      /\ db.scores[i].points - SumPoints(db.scores[i].criteriaBreakdown) <= Tolerance

C7_Witness ==
  /\ \E s \in Slots :
       Finished(s, {"review"}) /\ reqs[s].outcome = "500" /\ reqs[s].failure = "save"
  /\ \E i \in 1..Len(db.scores) :
       Len(db.scores[i].criteriaBreakdown) > 0 /\ db.scores[i].manuallyAdjusted

\* C8: whenever the stored scores list is non-empty, totalScore is the sum of
\* the scores' points and maxScore the sum of their maxPoints.
C8_DerivedTotals ==
  Len(db.scores) > 0 =>
    /\ db.totalScore = SumPoints(db.scores)
    /\ db.maxScore = SumMaxPoints(db.scores)

C8_Witness ==
  /\ db.status = "reviewed"
  /\ Len(db.scores) = 2
  /\ db.maxScore = 1500
  /\ db.totalScore = 700
  /\ \E i \in 1..2 : db.scores[i].manuallyAdjusted

\* C9: every stored score has 0 <= points <= maxPoints.
C9_PointsWithinRange ==
  \A i \in 1..Len(db.scores) :
    0 <= db.scores[i].points /\ db.scores[i].points <= db.scores[i].maxPoints

\* C10: a review save on a scored or reviewed submission that gives in-range
\* numeric points p for an existing score (and no breakdown) succeeds: the
\* stored points are p, the score is manuallyAdjusted, totalScore is the new
\* sum and the status is reviewed.
C10_ReviewSetsPoints ==
  \A s \in Slots :
    (Finished(s, {"review"}) /\ reqs[s].outcome # "400") =>
      \A j \in 1..Len(reqs[s].body.scores) :
        LET u == reqs[s].body.scores[j]
            k == FindScore(db.scores, u.questionNumber, 1)
        IN  ( /\ k # 0
              /\ ~u.hasBreakdown
              /\ Len(u.points) = 1
              /\ 0 <= OptValue(u.points)
              /\ OptValue(u.points) <= db.scores[k].maxPoints )
            => ( /\ reqs[s].outcome = "200"
                 /\ db.scores[k].points = OptValue(u.points)
                 /\ db.scores[k].manuallyAdjusted
                 /\ db.totalScore = SumPoints(db.scores)
                 /\ db.status = "reviewed" )

\* the question numbers of a list of questions, answers or scores
Numbers(list) == {list[i].questionNumber : i \in 1..Len(list)}

\* C11: a scoring run returns exactly one score per schema question, with the
\* question's number and maxPoints; an extracted answer whose number is not a
\* schema question gets no score, a schema question without an extracted
\* answer is scored against the empty answer, and every other question
\* against its extracted answer; a successful score request stores that list.
C11_ScoringReconciliation ==
  \A s \in Slots :
    LET r == reqs[s]
        returned == SortByNumber(r.results)
        answers == db.extractedAnswers
    IN  /\ ScoreAllAnswersParallelDone(r) =>
             /\ Len(returned) = Len(r.questions)
             /\ Numbers(returned) = Numbers(r.questions)
             /\ \A p \in 1..Len(r.questions) :
                  /\ ResultFor(returned, r, p).maxPoints = r.questions[p].maxPoints
                  /\ r.questions[p].questionNumber \notin Numbers(answers) => r.asked[p] = << >>
                  /\ \A i \in 1..Len(answers) :
                       answers[i].questionNumber = r.questions[p].questionNumber
                         => r.asked[p] = answers[i].studentAnswer
        /\ (Finished(s, {"score", "scoreAsync"}) /\ r.outcome \in {"200", "ok"}) =>
             /\ Len(db.scores) = Len(r.questions)
             /\ Numbers(db.scores) = Numbers(r.questions)
             /\ \A p \in 1..Len(r.questions) :
                  ResultFor(db.scores, r, p).maxPoints = r.questions[p].maxPoints

C11_Witness ==
  \E s \in Slots :
    /\ Finished(s, {"score"})
    /\ reqs[s].outcome = "200"
    /\ Len(db.scores) = 2
    /\ Numbers(db.extractedAnswers) \ Numbers(reqs[s].questions) # {}
    /\ Numbers(reqs[s].questions) \ Numbers(db.extractedAnswers) # {}
    /\ \E p \in 1..2 : reqs[s].asked[p] = <<"c">>

\* C12: after a successful process run the stored extractedAnswers hold exactly
\* one entry per schema question number and none for any other number.
C12_ExtractionReconciliation ==
  \A s \in Slots :
    (Finished(s, {"process", "processAsync"}) /\ reqs[s].outcome \in {"200", "ok"}) =>
      /\ Numbers(db.extractedAnswers) = Numbers(reqs[s].questions)
      /\ Len(db.extractedAnswers) = Len(reqs[s].questions)

\* C13: a process run in which the adapter's answer for some image could not
\* be parsed leaves the submission in status error, not extracted.
C13_UnparseableExtractionIsFatal ==
  \A s \in Slots :
    ( /\ Finished(s, {"process", "processAsync"})
      /\ \E i \in 1..Len(reqs[s].pages) : reqs[s].pages[i] = "unparseable" ) =>
      db.status = "error"

Qualifying(schemaId) ==
  {i \in 1..Len(tests.docs) :
     tests.docs[i].schemaId = schemaId /\ tests.docs[i].status \in {"scored", "reviewed"}}

\* C15: an export for a schema answers with exactly one row per submission of
\* that schema in status scored or reviewed and none for any other submission;
\* when there is no such submission it fails (404) and carries no rows.
C15_ExportRows ==
  \A s \in Slots :
    (Finished(s, {"export"}) /\ reqs[s].outcome # "400") =>
      LET schemaId == reqs[s].schemaId
          rows == reqs[s].rows
      IN  /\ Len(rows) = Cardinality(Qualifying(schemaId))
          /\ (Qualifying(schemaId) = {}) <=> (reqs[s].outcome = "404")
          /\ reqs[s].outcome = "404" => rows = << >>
          /\ \A k \in 1..Len(rows) : rows[k] # << >> => rows[k][1] \in Qualifying(schemaId)
          /\ schemaId \in tests.schemas =>
                \A i \in Qualifying(schemaId) :
                  Cardinality({k \in 1..Len(rows) : rows[k] # << >> /\ rows[k][1] = i}) = 1

C15_Witness ==
  \E s \in Slots :
    /\ Finished(s, {"export"})
    /\ reqs[s].outcome = "200"
    /\ Len(reqs[s].rows) = 2
    /\ Len(tests.docs) = 3
    /\ \E i \in 1..3 : tests.docs[i].schemaId = reqs[s].schemaId /\ tests.docs[i].status = "extracted"

\* C16: a stored schema's totalPoints is the sum of its questions' maxPoints,
\* whatever the create and update requests carried.
C16_SchemaTotalPoints ==
  schema.exists => schema.totalPoints = SumMaxPoints(schema.questions)

C16_Witness ==
  /\ schema.exists
  /\ schema.totalPoints = 700
  /\ \E s \in Slots :
       /\ Finished(s, {"schemaUpdate"})
       /\ reqs[s].outcome = "200"
       /\ reqs[s].body.totalPoints = <<9900>>

\* C17: a schema update or delete changes nothing of the stored submission,
\* and through every later review save each stored score keeps the maxPoints it
\* was scored with and the submission its maxScore.
C17_SchemaEditsNotRetroactive ==
  [][/\ schema' # schema => db' = db
     /\ db'.maxScore = db.maxScore
     /\ Len(db'.scores) = Len(db.scores)
     /\ \A i \in 1..Len(db.scores) :
          /\ db'.scores[i].questionNumber = db.scores[i].questionNumber
          /\ db'.scores[i].maxPoints = db.scores[i].maxPoints]_vars

C17_Witness ==
  /\ db.status = "reviewed"
  /\ Len(db.scores) = 1
  /\ db.scores[1].manuallyAdjusted
  /\ db.scores[1].maxPoints = 500
  /\ db.maxScore = 500
  /\ schema.exists
  /\ schema.totalPoints = 700

\* the chunk a question position belongs to, for window size w
Chunk(p, w) == (p - 1) \div w

Started(r, p) == r.asked[p] # NotAsked

Resolved(r, p) == r.resps[p] # NoResponse

\* C18: questions are dispatched in schema order in consecutive chunks of the
\* window size; at most that many calls are in flight, and a call of a chunk
\* has started only when every call of every earlier chunk has resolved.
C18_WindowOrdering ==
  \A s \in Slots :
    LET r == reqs[s]
        n == Len(r.questions)
    IN  r.pc = "scoring" =>
          /\ Cardinality(r.inflight) <= r.window
          /\ \A p \in r.inflight : Started(r, p) /\ ~Resolved(r, p)
          /\ \A p \in 1..n : (Started(r, p) /\ ~Resolved(r, p)) => p \in r.inflight
          /\ \A p, q \in 1..n :
               /\ (Started(r, p) /\ Chunk(q, r.window) < Chunk(p, r.window)) => Resolved(r, q)
               /\ (Started(r, p) /\ Chunk(q, r.window) = Chunk(p, r.window)) => Started(r, q)
               /\ Resolved(r, p) => Started(r, p)

C18_Witness ==
  \E s \in Slots :
    /\ reqs[s].pc = "scoring"
    /\ reqs[s].window = 2
    /\ Len(reqs[s].questions) = 3
    /\ reqs[s].inflight = {3}
    /\ reqs[s].resps[1].kind = "throw"
    /\ reqs[s].resps[2].kind = "ok"

\* C19: the list scoreAllAnswersParallel returns is sorted by question number
\* and holds, for each question, the result of that question's own adapter
\* answer: it depends on the questions and the per-question answers only, not
\* on the window size or on the order in which the calls of a chunk completed.
C19_OrderDeterminism ==
  \A s \in Slots :
    Finished(s, {"batch"}) =>
      LET r == reqs[s]
      IN  /\ Len(r.returned) = Len(r.questions)
          /\ IsSortedByNumber(r.returned)
          /\ \A p \in 1..Len(r.questions) :
               r.returned[r.questions[p].questionNumber] = scoreAnswer(r.questions[p], r.resps[p])

C19_Witness ==
  \E s \in Slots :
    /\ Finished(s, {"batch"})
    /\ reqs[s].window = 2
    /\ Len(reqs[s].returned) = 3
    /\ reqs[s].returned[1].points = 0
    /\ reqs[s].returned[3].points = 1500
    /\ reqs[s].returned[2].confidence = "medium"

\* every answer of every page, in page order
RECURSIVE AllAnswers(_)
AllAnswers(results) ==
  IF Len(results) = 0 THEN << >>
  ELSE AllAnswers(SubSeq(results, 1, Len(results) - 1)) \o results[Len(results)].questions

\* the texts of a list of answers joined by newlines
RECURSIVE JoinTexts(_)
JoinTexts(answers) ==
  IF Len(answers) = 0 THEN << >> ELSE Head(answers).studentAnswer \o JoinTexts(Tail(answers))

AnswersOf(results, n) ==
  SelectSeq(AllAnswers(results), LAMBDA q : q.questionNumber = n)

MergedQuestions(results) == extractTextFromMultipleImages(results).questions

\* a page that only repeats question numbers of the pages before it, with
\* empty or whitespace-only answers
BlankRepeat(results, k) ==
  /\ Len(results[k].questions) > 0
  /\ \A i \in 1..Len(results[k].questions) :
       /\ IsBlank(results[k].questions[i].studentAnswer)
       /\ results[k].questions[i].questionNumber \in Numbers(AllAnswers(SubSeq(results, 1, k - 1)))

C21_MergedStrictlyAscending ==
  \A s \in Slots :
    Finished(s, {"merge"}) =>
      /\ \A i \in 1..(Len(reqs[s].returned) - 1) :
           reqs[s].returned[i].questionNumber < reqs[s].returned[i + 1].questionNumber
      /\ Numbers(reqs[s].returned) = Numbers(AllAnswers(reqs[s].images))

C21_Witness ==
  \E s \in Slots :
    /\ Finished(s, {"merge"})
    /\ Len(reqs[s].images) = 2
    /\ reqs[s].images[1].questions = <<Answer(2, <<"a">>), Answer(2, <<"a">>)>>
    /\ reqs[s].images[2].questions = <<Answer(1, <<"a">>), Answer(2, << >>)>>
    /\ reqs[s].returned = <<Answer(1, <<"a">>), Answer(2, <<"a", "a">>)>>

\* C22: a process run in which the extraction call of some image threw fails
\* as a whole: the stored extractedText and extractedAnswers are what they were
\* before the request, nothing of the images that succeeded is stored, and the
\* status is not extracted.
C22_NoPartialExtraction ==
  \A s \in Slots :
    ( /\ Finished(s, {"process", "processAsync"})
      /\ \E i \in 1..Len(reqs[s].pages) : reqs[s].pages[i] = "throw" ) =>
      /\ reqs[s].failure = "extraction"
      /\ ExtractedContent(db) = reqs[s].before
      /\ db.status # "extracted"

C22_Witness ==
  \E s \in Slots :
    /\ Finished(s, {"process"})
    /\ reqs[s].pages = <<"parsed", "throw">>
    /\ reqs[s].outcome = "500"
    /\ db.status = "pending"
    /\ db.extractedAnswers = << >>

\* the adapter answer of a finished scoreAnswer call carried a breakdown that
\* the call kept
KeptBreakdown(r) ==
  /\ r.resps[1].kind = "ok"
  /\ r.questions[1].hasCriteria
  /\ Len(r.resps[1].criteriaBreakdown) > 0

\* C23: when the adapter's breakdown has a clamped point sum S > 0 that differs
\* from the clamped total P by more than 0.01, scoreAnswer returns each
\* criterion's points scaled by P/S and rounded, and the returned breakdown
\* sums to within 0.01 of the returned points, for any number of criteria;
\* when S = 0 the breakdown is returned as it is, all zero.
C23_BreakdownRescaling ==
  \A s \in Slots :
    (Finished(s, {"scoreAnswer"}) /\ KeptBreakdown(reqs[s])) =>
      LET resp == reqs[s].resps[1]
          result == reqs[s].returned[1]
          clamped == NonNegativeCriteria(resp.criteriaBreakdown)
          S == SumPoints(clamped)
          P == ClampPoints(OptValue(resp.points), reqs[s].questions[1].maxPoints)
      IN  /\ result.points = P
          /\ (S > 0 /\ Abs(S - P) > Tolerance) =>
               /\ Len(result.criteriaBreakdown) = Len(clamped)
               /\ \A i \in 1..Len(clamped) :
                    result.criteriaBreakdown[i].points = RoundDiv(clamped[i].points * P, S)
               /\ Abs(SumPoints(result.criteriaBreakdown) - result.points) <= Tolerance
          /\ S = 0 => result.criteriaBreakdown = clamped

\* C24: the status guard decides on the status the request read when it
\* loaded the submission: a process or score request that read the permitted
\* status passes the guard and persists processing whatever the stored status
\* has become in the meantime, so two requests that both read the permitted
\* status both pass, both call the adapter, and the later store overwrites the
\* earlier one.
C24_GuardNotAtomic ==
  [][\A s \in Clients :
       ( /\ reqs[s].pc = "guard"
         /\ reqs[s].kind \in {"process", "score"}
         /\ reqs[s].doc.status \in Permitted(reqs[s].kind)
         /\ reqs'[s] # reqs[s] )
       => ( /\ reqs'[s].pc = IF reqs[s].kind = "process" THEN "extract" ELSE "scoring"
            /\ db'.status = "processing" )]_vars

\* both process requests passed the guard, called the adapter and stored; what
\* the first stored (the raw text of an unparseable answer) is overwritten
C24_Witness ==
  /\ \A s \in {1, 2} : reqs[s].pc = "done" /\ reqs[s].kind = "process"
  /\ \A s \in {1, 2} : reqs[s].outcome = "200" /\ reqs[s].calls = 1
  /\ reqs[3].pc = "idle"
  /\ reqs[1].pages = <<"unparseable">>
  /\ reqs[2].pages = <<"parsed">>
  /\ db.extractedText = <<"page">>
  /\ db.extractedAnswers = <<Answer(0 - 1, <<"x">>), Answer(1, <<"c">>)>>
  /\ db.status = "extracted"

\* the same for two score requests: the degraded result the first stored is
\* overwritten by the result of the second
C24_ScoreOverwritten ==
  /\ \A s \in {1, 2} : reqs[s].pc = "done" /\ reqs[s].kind = "score"
  /\ \A s \in {1, 2} : reqs[s].outcome = "200" /\ reqs[s].calls = 1
  /\ reqs[3].pc = "idle"
  /\ reqs[1].resps[1].kind = "throw"
  /\ reqs[2].resps[1].kind = "ok"
  /\ db.scores[1].points = 500
  /\ db.status = "scored"

\* C25: a submission whose status is processing eventually leaves processing,
\* once the handler that set it runs on and its adapter calls return or throw,
\* also when the store of the result is rejected by the save hook.
C25_LeavesProcessing ==
  (db.status = "processing") ~> (db.status # "processing")

\* C26: once the stored submission is scored or reviewed, no step of a process
\* or score request changes its status back to pending, processing or extracted
\* or replaces its scores list, so a manually adjusted score keeps its points
\* until a review save changes them.
C26_HumanAdjustmentsKept ==
  [][\A s \in Clients :
       ( /\ db.status \in {"scored", "reviewed"}
         /\ reqs[s].kind \in {"process", "score"}
         /\ reqs'[s] # reqs[s] )
       => ( /\ db'.status \notin {"pending", "processing", "extracted"}
            /\ db'.scores = db.scores )]_vars

\* a review stored 2 points by hand, and the score request that was in flight
\* replaced the scores list afterwards
C26_AdjustmentOverwritten ==
  \E s, t \in Clients :
    /\ Finished(s, {"review"}) /\ reqs[s].outcome = "200"
    /\ reqs[s].body.scores = <<ScoreUpdate(1, <<200>>, "", "none", FALSE, << >>)>>
    /\ Finished(t, {"score"}) /\ reqs[t].outcome = "200"
    /\ db.status = "scored"
    /\ db.reviewedAt # 0
    /\ ~db.scores[1].manuallyAdjusted
    /\ db.scores[1].points = 500

\* C27: a review save that the save hook rejects leaves the stored submission
\* as it was: status, scores, totalScore, reviewNotes, reviewedBy and
\* reviewedAt keep the values they had before the request.
C27_RejectedReviewStoresNothing ==
  [][\A s \in Slots :
       ( /\ reqs[s].kind = "review"
         /\ reqs[s].pc = "guard"
         /\ reqs'[s].pc = "done"
         /\ reqs'[s].failure = "save" )
       => ( /\ reqs'[s].outcome = "500"
            /\ db' = db
            /\ db'.status = reqs[s].loaded.status
            /\ db'.scores = reqs[s].loaded.scores
            /\ db'.reviewedAt = reqs[s].loaded.reviewedAt )]_vars

C27_Witness ==
  \E s \in Slots :
    /\ Finished(s, {"review"})
    /\ reqs[s].outcome = "500"
    /\ reqs[s].failure = "save"
    /\ reqs[s].body.scores = <<ScoreUpdate(1, <<200>>, "", "none", FALSE, << >>)>>
    /\ db.status = "scored"
    /\ db.reviewedAt = 0
    /\ db.scores[1].points = 300
    /\ ~db.scores[1].manuallyAdjusted

\* C28: a review save leaves the number of stored scores, their order and each
\* score's questionNumber and maxPoints as they were; an update entry whose
\* questionNumber matches no stored score creates no score; and a score that no
\* update entry names is stored unchanged.
C28_ReviewKeepsShape ==
  [][\A s \in Slots :
       ( /\ reqs[s].kind = "review"
         /\ reqs[s].pc = "guard"
         /\ reqs'[s].pc = "done" )
       => ( /\ Len(db'.scores) = Len(db.scores)
            /\ \A i \in 1..Len(db.scores) :
                 /\ db'.scores[i].questionNumber = db.scores[i].questionNumber
                 /\ db'.scores[i].maxPoints = db.scores[i].maxPoints
                 /\ db.scores[i].questionNumber \notin Numbers(reqs'[s].body.scores)
                      => db'.scores[i] = db.scores[i] )]_vars

C28_Witness ==
  \E s \in Slots :
    /\ Finished(s, {"review"})
    /\ reqs[s].outcome = "200"
    /\ Len(reqs[s].body.scores) = 1
    /\ reqs[s].body.scores[1].questionNumber \notin Numbers(db.scores)
    /\ Len(db.scores) = 1
    /\ db.status = "reviewed"
    /\ ~db.scores[1].manuallyAdjusted

\* C29: in every exported CSV each data row has as many fields as the header
\* row, also when the exported submissions have breakdowns of different
\* lengths, or none, for the same question.
C29_CsvRectangular ==
  \A s \in Slots :
    (Finished(s, {"export"}) /\ reqs[s].outcome = "200") =>
      \A k \in 1..Len(reqs[s].rows) : Len(reqs[s].rows[k]) = Len(reqs[s].returned)

\* Math.ceil(n / w)
CeilDiv(n, w) == (n + w - 1) \div w

\* C30: scoreAllAnswersParallel returns once all its adapter calls have
\* resolved; when its loop ends it has gone through exactly ceil(n/w) chunks
\* and has made exactly one adapter call per question, none for an empty list.
C30_BatchTerminates ==
  /\ [](\A s \in Slots :
         LET r == reqs[s]
             n == Len(r.questions)
         IN  /\ r.calls <= n
             /\ r.calls = Cardinality({p \in 1..n : Started(r, p)})
             /\ (ScoreAllAnswersParallelDone(r) \/ Finished(s, {"batch"})) =>
                  /\ r.calls = n
                  /\ \A p \in 1..n : Resolved(r, p)
                  /\ Len(r.results) = n \/ Len(r.returned) = n
             /\ ScoreAllAnswersParallelDone(r) => r.next - 1 = r.window * CeilDiv(n, r.window))
  /\ <>(\A s \in Slots : Finished(s, {"batch"}))

C30_Witness ==
  \E s \in Slots :
    /\ ScoreAllAnswersParallelDone(reqs[s])
    /\ Len(reqs[s].questions) = 3
    /\ reqs[s].window = 2
    /\ reqs[s].next = 5
    /\ reqs[s].calls = 3

====
